---- MODULE Spec2Model ----
(***************************************************************************)
(* Model of the bruteforce crate's BruteForce sequencer                    *)
(* (src/bruteforce/src/lib.rs): the three constructors, raw_next and the   *)
(* Iterator adapter.  A Rust String is a sequence of one-character         *)
(* strings, a Charset is a sequence of characters indexed from 0 in the    *)
(* code and from 1 here, and raw_current holds the code's 0-based digits.  *)
(***************************************************************************)
EXTENDS Integers, Sequences, FiniteSets, TLC

VARIABLES
    phase,        \* "unbuilt", "ready" (a BruteForce exists) or "panicked"
    chars,        \* BruteForce.chars
    current,      \* BruteForce.current
    raw_current,  \* BruteForce.raw_current, least significant digit first
    ctor,         \* the constructor call that was made and its arguments
    returned,     \* the strings returned by the raw_next calls so far, in order
    indices,      \* for each of those calls, the digits it rendered, in rendering order
    last_ret,     \* the value the last call returned to its caller
    panic         \* the panic that ended the run: its message and the values
                  \* formatted into it; NoPanic if none

vars == <<phase, chars, current, raw_current, ctor, returned, indices, last_ret, panic>>

----------------------------------------------------------------------------
\* Bounds of the model.

\* longest charset of the generated charsets
MaxCharsetLen == 3
\* largest `start` of new_at and longest `start_string` of new_by_start_string
MaxStartLen == 3
\* number of raw_next calls (direct or through Iterator::next) in one run
MaxCalls == 13

Letters == {"A", "B", "C"}

SeqsUpTo(S, n) == UNION {[1..m -> S] : m \in 0..n}

\* The charsets of the model: every sequence of letters up to the bound
\* (empty, and with repeated characters), and the charset of the spec's
\* error scenario.
Charsets == SeqsUpTo(Letters, MaxCharsetLen) \cup {<<"X", "Y">>}

StartStrings == SeqsUpTo(Letters, MaxStartLen) \cup {<<"X", "Z">>}

----------------------------------------------------------------------------
\* Option<T>

None == [some |-> FALSE]
Some(v) == [some |-> TRUE, val |-> v]

\* The two panic messages of lib.rs.  Both are string literals: neither
\* expect() nor this assert!() formats any value into its message.
ExpectMsg == "characters in start_string must exist in charset"
AssertMsg == "Bug: Invalid character index"

NoPanic == [msg |-> "", args |-> <<>>]
ExpectPanic == [msg |-> ExpectMsg, args |-> <<>>]
AssertPanic == [msg |-> AssertMsg, args |-> <<>>]

Min(S) == CHOOSE x \in S : \A y \in S : x <= y

\* charset.iter().position(|&c2| c1 == c2): the 0-based index of the first
\* occurrence of c1
Position(charset, c1) ==
    LET hits == {j \in 1..Len(charset) : charset[j] = c1}
    IN  IF hits = {} THEN None ELSE Some(Min(hits) - 1)

\* Variant of StartDigits: the characters are read first to last (no .rev()).
StartDigitsForward(charset, start_string) ==
    LET n == Len(start_string)
        pos == [i \in 1..n |-> Position(charset, start_string[i])]
    IN  IF \E i \in 1..n : ~pos[i].some
        THEN None
        ELSE Some([i \in 1..n |-> pos[i].val])

\* Variant of StartDigits: characters without a position are dropped
\* (filter_map) instead of failing the whole collection.
RECURSIVE KnownDigits(_, _, _)
KnownDigits(charset, start_string, i) ==
    IF i = 0
    THEN <<>>
    ELSE LET pos == Position(charset, start_string[i])
         IN  (IF pos.some THEN <<pos.val>> ELSE <<>>)
                 \o KnownDigits(charset, start_string, i - 1)

StartDigitsSkipUnknown(charset, start_string) ==
    Some(KnownDigits(charset, start_string, Len(start_string)))

\* start_string.chars().rev().map(position).collect::<Option<Vec<usize>>>()
StartDigits(charset, start_string) ==
    LET n == Len(start_string)
        pos == [i \in 1..n |-> Position(charset, start_string[n + 1 - i])]
    IN  IF \E i \in 1..n : ~pos[i].some
        THEN None
        ELSE Some([i \in 1..n |-> pos[i].val])

\* Variant of ZeroDigits: an inclusive range (0..=start).
ZeroDigitsInclusive(start) == [i \in 1..(start + 1) |-> 0]

\* (0..start).map(|_| 0).collect::<Vec<usize>>()
ZeroDigits(start) == [i \in 1..start |-> 0]

\* the assertion of raw_next's rendering closure fails for some digit
AssertFails(raw, charset) == \E i \in 1..Len(raw) : ~(raw[i] < Len(charset))

\* Variant of Render: the digits are read in storage order (no .rev()).
RenderForward(raw, charset) == [p \in 1..Len(raw) |-> charset[raw[p] + 1]]

\* raw_current.iter().rev().map(|&i| chars[i]) collected into the string
Render(raw, charset) ==
    [p \in 1..Len(raw) |-> charset[raw[Len(raw) + 1 - p] + 1]]

\* the digits in the order the rendering reads them
Reversed(raw) == [p \in 1..Len(raw) |-> raw[Len(raw) + 1 - p]]

\* The loop of raw_next from position i on: add one, reset and carry on
\* when the digit reaches the charset's length, stop otherwise; a carry out
\* of the last digit pushes a 0.
RECURSIVE AddOne(_, _, _)
AddOne(raw, i, len) ==
    IF i > Len(raw)
    THEN Append(raw, 0)
    ELSE IF raw[i] + 1 = len
         THEN AddOne([raw EXCEPT ![i] = 0], i + 1, len)
         ELSE [raw EXCEPT ![i] = raw[i] + 1]

\* Variant of Advance: the carry out of the last digit pushes nothing.
RECURSIVE AddOneNoPush(_, _, _)
AddOneNoPush(raw, i, len) ==
    IF i > Len(raw)
    THEN raw
    ELSE IF raw[i] + 1 = len
         THEN AddOneNoPush([raw EXCEPT ![i] = 0], i + 1, len)
         ELSE [raw EXCEPT ![i] = raw[i] + 1]

AdvanceNoPush(raw, len) == AddOneNoPush(raw, 1, len)

\* Variant of Advance: the loop walks the digits from the last stored one
\* (iter_mut().rev()).
RECURSIVE AddOneFromTop(_, _, _)
AddOneFromTop(raw, i, len) ==
    IF i < 1
    THEN Append(raw, 0)
    ELSE IF raw[i] + 1 = len
         THEN AddOneFromTop([raw EXCEPT ![i] = 0], i - 1, len)
         ELSE [raw EXCEPT ![i] = raw[i] + 1]

AdvanceFromTop(raw, len) == AddOneFromTop(raw, Len(raw), len)

\* Variant of Advance: the digit is reset only once it has passed the
\* charset's length (> instead of ==).
RECURSIVE AddOneLateReset(_, _, _)
AddOneLateReset(raw, i, len) ==
    IF i > Len(raw)
    THEN Append(raw, 0)
    ELSE IF raw[i] + 1 > len
         THEN AddOneLateReset([raw EXCEPT ![i] = 0], i + 1, len)
         ELSE [raw EXCEPT ![i] = raw[i] + 1]

AdvanceLateReset(raw, len) == AddOneLateReset(raw, 1, len)

\* Variant of Advance: the carry out of the last digit pushes a 1.
RECURSIVE AddOnePushOne(_, _, _)
AddOnePushOne(raw, i, len) ==
    IF i > Len(raw)
    THEN Append(raw, 1)
    ELSE IF raw[i] + 1 = len
         THEN AddOnePushOne([raw EXCEPT ![i] = 0], i + 1, len)
         ELSE [raw EXCEPT ![i] = raw[i] + 1]

AdvancePushOne(raw, len) == AddOnePushOne(raw, 1, len)

\* "Add" 1 to self.raw_current
Advance(raw, len) == AddOne(raw, 1, len)

----------------------------------------------------------------------------
Init ==
    /\ phase = "unbuilt"
    /\ chars = <<>>
    /\ current = <<>>
    /\ raw_current = <<>>
    /\ ctor = [fn |-> "none", charset |-> <<>>, start |-> 0, start_string |-> <<>>]
    /\ returned = <<>>
    /\ indices = <<>>
    /\ last_ret = [fn |-> "none"]
    /\ panic = NoPanic

\* BruteForce::new(charset)
New ==
    /\ phase = "unbuilt"
    /\ \E charset \in Charsets :
        /\ phase' = "ready"
        /\ chars' = charset
        /\ current' = <<>>
        /\ raw_current' = <<>>
        /\ ctor' = [fn |-> "new", charset |-> charset, start |-> 0, start_string |-> <<>>]
        /\ UNCHANGED <<returned, indices, last_ret, panic>>

\* BruteForce::new_at(charset, start)
NewAt ==
    /\ phase = "unbuilt"
    /\ \E charset \in Charsets, start \in 0..MaxStartLen :
        /\ phase' = "ready"
        /\ chars' = charset
        /\ current' = <<>>
        /\ raw_current' = ZeroDigits(start)
        /\ ctor' = [fn |-> "new_at", charset |-> charset, start |-> start,
                    start_string |-> <<>>]
        /\ UNCHANGED <<returned, indices, last_ret, panic>>

\* BruteForce::new_by_start_string(charset, start_string): expect() panics
\* with its fixed message when a character has no position, and no
\* BruteForce is built.
NewByStartString ==
    /\ phase = "unbuilt"
    /\ \E charset \in Charsets, start_string \in StartStrings :
        LET digits == StartDigits(charset, start_string)
        IN  /\ ctor' = [fn |-> "new_by_start_string", charset |-> charset,
                        start |-> 0, start_string |-> start_string]
            /\ IF digits.some
               THEN /\ phase' = "ready"
                    /\ chars' = charset
                    /\ current' = <<>>
                    /\ raw_current' = digits.val
                    /\ UNCHANGED panic
               ELSE /\ phase' = "panicked"
                    /\ panic' = ExpectPanic
                    /\ UNCHANGED <<chars, current, raw_current>>
            /\ UNCHANGED <<returned, indices, last_ret>>

\* &self.current: the string as raw_next hands it out, a view of the buffer
Borrowed(s) == [ref |-> s]

\* Variant of IteratorItem: an empty string ends the iteration.
IteratorItemEndsOnEmpty(s) == IF s = <<>> THEN None ELSE Some(s)

\* Some(self.raw_next().to_string()): an owned copy of the string, wrapped
IteratorItem(s) == Some(s)

\* The body of raw_next.  The buffer is swapped out of self.current before
\* the rendering, so a failed assertion leaves self.current empty and
\* raw_current as it was.
RawNextBody(fn) ==
    /\ IF AssertFails(raw_current, chars)
       THEN /\ phase' = "panicked"
            /\ panic' = AssertPanic
            /\ current' = <<>>
            /\ UNCHANGED <<raw_current, returned, indices, last_ret>>
       ELSE /\ current' = Render(raw_current, chars)
            /\ raw_current' = Advance(raw_current, Len(chars))
            /\ returned' = Append(returned, current')
            /\ indices' = Append(indices, Reversed(raw_current))
            /\ last_ret' = [fn |-> fn,
                            val |-> IF fn = "next" THEN IteratorItem(current')
                                                   ELSE Borrowed(current')]
            /\ UNCHANGED <<phase, panic>>
    /\ UNCHANGED <<chars, ctor>>

\* BruteForce::raw_next(&mut self) -> &str
RawNext ==
    /\ phase = "ready"
    /\ Len(returned) < MaxCalls
    /\ RawNextBody("raw_next")

\* <BruteForce as Iterator>::next: Some(self.raw_next().to_string())
IteratorNext ==
    /\ phase = "ready"
    /\ Len(returned) < MaxCalls
    /\ RawNextBody("next")

Next == New \/ NewAt \/ NewByStartString \/ RawNext \/ IteratorNext

Spec == Init /\ [][Next]_vars

\* The caller keeps calling: a call that stays possible is eventually made.
FairSpec == Spec /\ WF_vars(RawNext \/ IteratorNext)

----------------------------------------------------------------------------
\* Arithmetic and orderings the properties are stated with.

RECURSIVE Pow(_, _)
Pow(k, e) == IF e = 0 THEN 1 ELSE k * Pow(k, e - 1)

\* k^0 + ... + k^(L-1), the number of strings shorter than L
RECURSIVE Geo(_, _)
Geo(k, L) == IF L = 0 THEN 0 ELSE Geo(k, L - 1) + Pow(k, L - 1)

Range(f) == {f[i] : i \in DOMAIN f}

Distinct(charset) ==
    \A i, j \in 1..Len(charset) : charset[i] = charset[j] => i = j

Repeat(c, n) == [p \in 1..n |-> c]

\* the lengths L with k^0+...+k^(L-1) <= n < k^0+...+k^L
LengthsOf(k, n) == {L \in 0..n : Geo(k, L) <= n /\ n < Geo(k, L + 1)}

\* the n-th string (0-indexed) of the enumeration over charset, as the
\* closed formula gives it
NthString(charset, n) ==
    LET k == Len(charset)
        L == CHOOSE l \in LengthsOf(k, n) : TRUE
        m == n - Geo(k, L)
    IN  [p \in 1..L |-> charset[((m \div Pow(k, L - p)) % k) + 1]]

\* shortlex order on digit vectors read left to right
ShortlexLess(a, b) ==
    \/ Len(a) < Len(b)
    \/ /\ Len(a) = Len(b)
       /\ \E i \in 1..Len(a) :
            /\ a[i] < b[i]
            /\ \A j \in 1..(i - 1) : a[j] = b[j]

\* w comes right after v among the digit vectors over 0..k-1
ImmediateSuccessor(v, w, k) ==
    /\ ShortlexLess(v, w)
    /\ ~\E u \in UNION {[1..l -> 0..(k - 1)] : l \in Len(v)..Len(w)} :
            ShortlexLess(v, u) /\ ShortlexLess(u, w)

----------------------------------------------------------------------------
\* C1: for a charset of k >= 1 characters and a sequencer built with new,
\* the n-th string returned (0-indexed) has the one length L with
\* k^0+...+k^(L-1) <= n < k^0+...+k^L and is n - (k^0+...+k^(L-1)) written
\* in base k with L digits, most significant first, mapped through the
\* charset.
C1_NthString ==
    (ctor.fn = "new" /\ Len(chars) >= 1) =>
        \A n \in 1..Len(returned) :
            /\ Cardinality(LengthsOf(Len(chars), n - 1)) = 1
            /\ returned[n] = NthString(chars, n - 1)

C1_Witness ==
    /\ ctor.fn = "new"
    /\ chars = <<"A", "B">>
    /\ Len(returned) >= 12
    /\ returned[12] = <<"B", "A", "A">>

\* C2: for a charset of k >= 1 characters and a sequencer built with new,
\* the first string returned is empty, every later one is the rendering of
\* the digit vector that comes right after the previous one in shortlex
\* order, and after k^0+...+k^L calls every string of length <= L over the
\* charset has been returned.
C2_ShortlexOrder ==
    (ctor.fn = "new" /\ Len(chars) >= 1) =>
        LET k == Len(chars)
            N == Len(returned)
        IN  /\ N >= 1 => returned[1] = <<>>
            /\ \A n \in 1..N :
                 /\ Len(returned[n]) = Len(indices[n])
                 /\ \A p \in 1..Len(indices[n]) :
                      /\ indices[n][p] \in 0..(k - 1)
                      /\ returned[n][p] = chars[indices[n][p] + 1]
                      /\ Distinct(chars) =>
                            Position(chars, returned[n][p]) = Some(indices[n][p])
            /\ \A n \in 1..(N - 1) :
                 ImmediateSuccessor(indices[n], indices[n + 1], k)
            /\ \A L \in 0..N :
                 N >= Geo(k, L + 1) => SeqsUpTo(Range(chars), L) \subseteq Range(returned)

C2_Witness ==
    /\ ctor.fn = "new"
    /\ chars = <<"A", "B", "C">>
    /\ Len(returned) = Geo(3, 3)
    /\ returned[Len(returned)] = <<"C", "C">>

\* C3 as stated: for any charset of length >= 1, repeated characters
\* allowed, and a sequencer built with new, the strings returned by two
\* different calls differ.
C3_Original ==
    (ctor.fn = "new" /\ Len(chars) >= 1) =>
        \A n1, n2 \in 1..Len(returned) : n1 # n2 => returned[n1] # returned[n2]

\* C3, amended: for a charset of length >= 1 whose characters are pairwise
\* distinct and a sequencer built with new, the strings returned by two
\* different calls differ.
C3_DistinctOutputs ==
    (ctor.fn = "new" /\ Len(chars) >= 1 /\ Distinct(chars)) =>
        \A n1, n2 \in 1..Len(returned) : n1 # n2 => returned[n1] # returned[n2]

C3_Witness ==
    /\ ctor.fn = "new"
    /\ chars = <<"B", "A">>
    /\ Len(returned) >= 7

\* the characters of the start string all occur in the charset
ValidStart == \A i \in 1..Len(ctor.start_string) : ctor.start_string[i] \in Range(ctor.charset)

\* C4: for any charset (repeated characters or none at all included) and any
\* start string made of its characters, new_by_start_string builds a
\* sequencer and the first string it returns is the start string itself.
C4_ResumeReturnsStart ==
    (ctor.fn = "new_by_start_string" /\ ValidStart) =>
        /\ panic # ExpectPanic
        /\ chars = ctor.charset
        /\ Len(returned) >= 1 => returned[1] = ctor.start_string

C4_Witness ==
    /\ ctor.fn = "new_by_start_string"
    /\ ~Distinct(chars)
    /\ ctor.start_string = <<"B", "A", "A">>
    /\ Len(returned) >= 1

\* C5: for a charset of length >= 1 and any N >= 0, the first string a
\* sequencer built with new_at(charset, N) returns is the charset's first
\* character N times, and no call on it panics.
C5_SkipReturnsFirstChars ==
    (ctor.fn = "new_at" /\ Len(ctor.charset) >= 1) =>
        /\ phase = "ready"
        /\ Len(returned) >= 1 => returned[1] = Repeat(chars[1], ctor.start)

C5_Witness ==
    /\ ctor.fn = "new_at"
    /\ chars = <<"B", "A">>
    /\ ctor.start = 3
    /\ returned = <<Repeat("B", 3)>>

\* C6 as stated: with charset A, B and a sequencer built with new, the
\* first five strings returned are "", "A", "B", "AA", "BA".
C6_Original ==
    (ctor.fn = "new" /\ chars = <<"A", "B">> /\ Len(returned) >= 5) =>
        SubSeq(returned, 1, 5) = << <<>>, <<"A">>, <<"B">>, <<"A", "A">>, <<"B", "A">> >>

\* C6, amended: with charset A, B and a sequencer built with new, the first
\* five strings returned are "", "A", "B", "AA", "AB".
C6_FirstFive ==
    (ctor.fn = "new" /\ chars = <<"A", "B">> /\ Len(returned) >= 5) =>
        SubSeq(returned, 1, 5) = << <<>>, <<"A">>, <<"B">>, <<"A", "A">>, <<"A", "B">> >>

C6_Witness ==
    /\ ctor.fn = "new"
    /\ chars = <<"A", "B">>
    /\ Len(returned) = 5

\* the characters of the start string that do not occur in the charset
UnknownChars == Range(ctor.start_string) \ Range(ctor.charset)

\* new_by_start_string failed: it panicked, built no sequencer, and nothing
\* was ever returned
ConstructionFailed ==
    /\ phase = "panicked"
    /\ chars = <<>> /\ current = <<>> /\ raw_current = <<>>
    /\ returned = <<>>
    /\ last_ret = [fn |-> "none"]

\* C7 as stated: new_by_start_string with a start string holding a
\* character that is not in the charset fails at construction with an error
\* that identifies the offending character; no sequencer is returned and no
\* string is produced.
C7_Original ==
    (ctor.fn = "new_by_start_string" /\ UnknownChars # {}) =>
        /\ ConstructionFailed
        /\ \E c \in UnknownChars : c \in Range(panic.args)

\* C7, amended: new_by_start_string with a start string holding a character
\* that is not in the charset panics at construction with the fixed message
\* "characters in start_string must exist in charset", which names no
\* character; no sequencer is returned and no string is produced.
C7_InvalidStartPanics ==
    (ctor.fn = "new_by_start_string" /\ UnknownChars # {}) =>
        /\ ConstructionFailed
        /\ panic = ExpectPanic

C7_Witness ==
    /\ ctor.fn = "new_by_start_string"
    /\ ctor.charset = <<"X", "Y">>
    /\ ctor.start_string = <<"X", "Z">>
    /\ phase = "panicked"

\* C8 as stated: with an empty charset, whatever the constructor, no
\* string is ever returned as a successful result and raw_current never
\* holds a digit that is not below the charset's length.
C8_EmptyCharsetFails ==
    (ctor.fn # "none" /\ Len(ctor.charset) = 0) =>
        /\ returned = <<>>
        /\ \A i \in 1..Len(raw_current) : raw_current[i] < Len(ctor.charset)

\* C9: for a charset of length k >= 1, after any constructor and any number
\* of calls every element of raw_current is below k, and the assertion
\* "Bug: Invalid character index" has not failed.
C9_DigitsBelowLen ==
    (ctor.fn # "none" /\ Len(ctor.charset) >= 1) =>
        /\ \A i \in 1..Len(raw_current) : raw_current[i] \in 0..(Len(ctor.charset) - 1)
        /\ panic # AssertPanic

C9_Witness ==
    /\ ctor.fn = "new_by_start_string"
    /\ Len(chars) = 3
    /\ Len(ctor.start_string) = 2
    /\ Len(raw_current) = 3
    /\ Len(returned) >= 2

\* every digit of v is the last index of a charset of k characters
AllLast(v, k) == \A p \in 1..Len(v) : v[p] = k - 1

\* raw_current as the n-th successful call left it
DigitsAfter(n) == IF n < Len(indices) THEN indices[n + 1] ELSE Reversed(raw_current)

DigitsBeforeLast == Reversed(indices[Len(indices)])

\* C11: for a charset of length k >= 1 no call fails or ends the sequence:
\* Iterator::next returns Some(s), never None, where s is the string
\* raw_next renders from the same digits, and it leaves current and
\* raw_current as that raw_next call does.
C11_NextIsRawNext ==
    (Len(chars) >= 1) =>
        /\ phase = "ready"
        /\ ~AssertFails(raw_current, chars)
        /\ Len(returned) >= 1 =>
             /\ current = Render(DigitsBeforeLast, chars)
             /\ raw_current = Advance(DigitsBeforeLast, Len(chars))
             /\ last_ret.fn = "raw_next" => last_ret.val = Borrowed(current)
             /\ last_ret.fn = "next" => last_ret.val = Some(current)

C11_Witness ==
    /\ Len(chars) = 2
    /\ Len(returned) >= 6
    /\ last_ret.fn = "next"
    /\ last_ret.val = Some(<<"B", "A">>)

\* the lowest position (1-based, least significant first) whose digit is
\* not k-1; 0 if every digit is k-1
LowestFree(raw, k) ==
    LET free == {i \in 1..Len(raw) : raw[i] # k - 1}
    IN  IF free = {} THEN 0 ELSE CHOOSE i \in free : \A j \in free : i <= j

\* new is old plus one as a mixed-radix number of base k
MixedRadixIncrement(old, new, k) ==
    LET j == LowestFree(old, k)
    IN  IF j = 0
        THEN /\ Len(new) = Len(old) + 1
             /\ \A i \in 1..Len(new) : new[i] = 0
        ELSE /\ Len(new) = Len(old)
             /\ \A i \in 1..(j - 1) : new[i] = 0
             /\ new[j] = old[j] + 1
             /\ \A i \in (j + 1)..Len(old) : new[i] = old[i]

\* C12: for a charset of length k >= 1, a call changes raw_current as one
\* mixed-radix increment: below the lowest digit that is not k-1 the digits
\* become 0, that digit grows by 1, the digits above it and the length stay;
\* if there is no such digit all become 0 and one 0 is appended.  The length
\* of raw_current never decreases and chars never changes once set.
C12_SingleIncrement ==
    [][/\ (Len(chars) >= 1 /\ returned' # returned) =>
             MixedRadixIncrement(raw_current, raw_current', Len(chars))
       /\ phase = "ready" =>
             /\ Len(raw_current') >= Len(raw_current)
             /\ chars' = chars]_vars

C12_Witness ==
    /\ Len(chars) = 3
    /\ Len(returned) >= 3
    /\ indices[Len(indices)] = <<1, 2, 2>>
    /\ raw_current = <<0, 0, 2>>

\* C13: with an empty charset and a sequencer built with new, the first
\* call returns the empty string and leaves a digit the rendering cannot
\* map, so no later call returns anything: the only string ever returned is
\* the empty one.
C13_EmptyCharsetOnlyEmptyString ==
    (ctor.fn = "new" /\ Len(ctor.charset) = 0) =>
        /\ returned \in {<<>>, << <<>> >>}
        /\ returned = <<>> => (phase = "ready" /\ ~AssertFails(raw_current, chars))
        /\ returned # <<>> => AssertFails(raw_current, chars)
        /\ phase = "panicked" => (returned # <<>> /\ panic = AssertPanic)

C13_Witness ==
    /\ ctor.fn = "new"
    /\ Len(ctor.charset) = 0
    /\ returned = << <<>> >>
    /\ phase = "panicked"

\* raw_current after m more calls of raw_next on a charset of length len
RECURSIVE AfterCalls(_, _, _)
AfterCalls(raw, len, m) ==
    IF m = 0 THEN raw ELSE AfterCalls(Advance(raw, len), len, m - 1)

\* the strings the next n calls of raw_next return, starting from raw
RECURSIVE Outputs(_, _, _)
Outputs(raw, charset, n) ==
    IF n = 0
    THEN <<>>
    ELSE <<Render(raw, charset)>> \o Outputs(Advance(raw, Len(charset)), charset, n - 1)

\* raw_current of a sequencer built with new(charset) after m calls
NewAfter(charset, m) == AfterCalls(<<>>, Len(charset), m)

\* C14: for a charset of k >= 1 distinct characters and any N, a sequencer
\* built with new_at(charset, N) is in the state of one built with
\* new(charset) after k^0+...+k^(N-1) calls, and returns call by call the
\* same strings from there; the calls skipped are exactly those returning
\* the shorter strings.
C14_SkipIsNewAfterCalls ==
    (ctor.fn = "new_at" /\ Len(chars) >= 1 /\ Distinct(chars)) =>
        LET k == Len(chars)
            skipped == Geo(k, ctor.start)
            base == NewAfter(chars, skipped)
        IN  /\ returned = Outputs(base, chars, Len(returned))
            /\ raw_current = AfterCalls(base, k, Len(returned))
            /\ \A m \in 0..(skipped - 1) : Len(NewAfter(chars, m)) < ctor.start
            /\ Len(base) = ctor.start

C14_Witness ==
    /\ ctor.fn = "new_at"
    /\ chars = <<"C", "A", "B">>
    /\ ctor.start = 2
    /\ Len(returned) >= 10
    /\ returned[10] = <<"C", "C", "C">>

\* raw advanced by raw_next calls until the next string to be returned is
\* s, giving up (with a vector no sequencer holds) after fuel calls
RECURSIVE AdvancedUntil(_, _, _, _)
AdvancedUntil(raw, charset, s, fuel) ==
    IF Render(raw, charset) = s
    THEN raw
    ELSE IF fuel = 0
         THEN <<-1>>
         ELSE AdvancedUntil(Advance(raw, Len(charset)), charset, s, fuel - 1)

\* raw_current of a sequencer built with new(charset) and advanced until
\* its next output is s
NewUntilNext(charset, s) ==
    AdvancedUntil(<<>>, charset, s, Geo(Len(charset), Len(s) + 1))

\* C15: for a charset of k >= 1 distinct characters and a start string S
\* over it, a sequencer built with new_by_start_string(charset, S) has the
\* digits of one built with new(charset) and advanced until its next output
\* is S, and returns call by call the same strings from there.
C15_ResumeIsNewAdvanced ==
    (/\ ctor.fn = "new_by_start_string"
     /\ Len(ctor.charset) >= 1
     /\ Distinct(ctor.charset)
     /\ ValidStart) =>
        LET base == NewUntilNext(ctor.charset, ctor.start_string)
        IN  /\ phase = "ready"
            /\ Render(base, chars) = ctor.start_string
            /\ returned = Outputs(base, chars, Len(returned))
            /\ raw_current = AfterCalls(base, Len(chars), Len(returned))

C15_Witness ==
    /\ ctor.fn = "new_by_start_string"
    /\ chars = <<"B", "C", "A">>
    /\ ctor.start_string = <<"A", "C">>
    /\ Len(returned) >= 3
    /\ returned[3] = <<"B", "B", "B">>

\* the value of the digits v[1..n], most significant first, in base k
RECURSIVE DigitsValue(_, _, _)
DigitsValue(v, n, k) == IF n = 0 THEN 0 ELSE DigitsValue(v, n - 1, k) * k + v[n]

\* the number of digit vectors over 0..k-1 that come before v in shortlex
\* order
ShortlexRank(v, k) == Geo(k, Len(v)) + DigitsValue(v, Len(v), k)

\* v and w are digit vectors over 0..k-1 and w is the next one after v in
\* shortlex order
NextInShortlex(v, w, k) ==
    /\ \A p \in 1..Len(v) : v[p] \in 0..(k - 1)
    /\ \A p \in 1..Len(w) : w[p] \in 0..(k - 1)
    /\ ShortlexRank(w, k) = ShortlexRank(v, k) + 1

\* what holds of current in every case: empty right after any constructor;
\* after a call on a charset of length >= 1 it is the string that call
\* returned, and raw_current holds the digit vector that comes right after
\* the one current was rendered from
CurrentLagsDigits ==
    /\ (phase = "ready" /\ returned = <<>>) => current = <<>>
    /\ (Len(chars) >= 1 /\ Len(returned) >= 1) =>
          /\ current = returned[Len(returned)]
          /\ current = Render(DigitsBeforeLast, chars)
          /\ NextInShortlex(indices[Len(indices)], Reversed(raw_current), Len(chars))

GrowthWithinPow ==
    (Len(chars) >= 1) =>
        \A j \in 0..Len(returned) :
            LET K == Len(DigitsAfter(j))
                need == Pow(Len(chars), K)
            IN  /\ j + need <= Len(returned) =>
                     \E i \in 1..need : Len(DigitsAfter(j + i)) = K + 1
                /\ (\A p \in 1..K : DigitsAfter(j)[p] = 0) =>
                     /\ \A i \in 0..(need - 1) :
                          j + i <= Len(returned) => Len(DigitsAfter(j + i)) = K
                     /\ j + need <= Len(returned) => Len(DigitsAfter(j + need)) = K + 1

\* From the digits after j calls: length M is passed within `need` further
\* calls, one of which returns a string of length M, and so are the lengths
\* after M, each within k^(M+1) calls more (pw = k^M); checked as far as the
\* calls made so far reach.
RECURSIVE LengthsPassed(_, _, _, _)
LengthsPassed(j, M, pw, need) ==
    (j + need <= Len(returned)) =>
        /\ Len(DigitsAfter(j + need)) > M
        /\ \E n \in (j + 1)..(j + need) : Len(returned[n]) = M
        /\ LengthsPassed(j, M + 1, pw * Len(chars), need + pw * Len(chars))

\* Counted over the calls made so far: from the digits after j calls, of
\* length K, every length M >= K is passed within k^K+...+k^M further
\* calls, one of which returns a string of length M.
EveryLengthWithin ==
    (Len(chars) >= 1) =>
        \A j \in 0..Len(returned) :
            LET pw == Pow(Len(chars), Len(DigitsAfter(j)))
            IN  LengthsPassed(j, Len(DigitsAfter(j)), pw, pw)

\* a call can still be made on a sequencer over a charset of length >= 1
CanCall ==
    /\ phase = "ready"
    /\ Len(chars) >= 1
    /\ Len(returned) < MaxCalls

\* all the calls of the run have been made and have returned
AllCallsReturned == phase = "ready" /\ Len(returned) = MaxCalls

\* C17: for a charset of length k >= 1, a digit vector of length K reaches
\* length K+1 within k^K further calls (after exactly k^K when all digits
\* are 0), hence passes every length M >= K within k^K+...+k^M calls, one
\* of them returning a string of length M; and as long as calls keep being
\* made every one of them returns, so every such length is eventually
\* returned.
C17_EveryLengthReached ==
    /\ []GrowthWithinPow
    /\ []EveryLengthWithin
    /\ CanCall ~> AllCallsReturned

C17_Witness ==
    /\ ctor.fn = "new_at"
    /\ Len(chars) = 2
    /\ ctor.start = 2
    /\ Len(returned) = 12
    /\ Len(raw_current) = 4

====
